---- MODULE Spec2Model ----
(***************************************************************************)
(* The persona registry of goc-persona (persona-registry.cjs) and the      *)
(* commands of index.js that drive it, as a state machine over the         *)
(* persisted registry document.                                            *)
(*                                                                         *)
(* Strings that the code takes apart or puts together (persona names,      *)
(* repository identifiers, paths) are sequences of tokens, so that the     *)
(* template `goc-persona-${name}` and the regular expression               *)
(* /^goc-persona-/ act on them as they do on the text.  A JavaScript       *)
(* object is an ordered mapping: a sequence of [k, v] entries in insertion *)
(* order.  A value that may be undefined/null is a sequence of length 0    *)
(* (undefined) or 1.  A timestamp (an ISO-8601 string of the clock) is the *)
(* clock's reading, a natural number.                                      *)
(***************************************************************************)
EXTENDS Naturals, Sequences, FiniteSets

VARIABLES file, clock, last, prev, procs, events

vars == <<file, clock, last, prev, procs, events>>

-----------------------------------------------------------------------------
(* Bounds of the model *)

\* the clock's readings are 0..MaxClock
MaxClock == 1

-----------------------------------------------------------------------------
(* Values *)

None == <<>>

Some(v) == <<v>>

IsSome(o) == Len(o) = 1

Get1(o) == o[1]

\* the readings n successive calls of new Date() can give from reading t on
Readings(t, n) ==
    { s \in [1..n -> t..MaxClock] : \A i \in 1..(n - 1) : s[i] <= s[i + 1] }

\* persona names given on the command line
Names == { <<"demo">>, <<"goc-persona-", "demo">> }

\* the personas whose credentials and status are managed
Managed == { <<"demo">> }

\* credential kinds given on the command line: one common, one not common
KeyTypes == { "openai", "discord" }

\* statuses given to update-status: the two known ones and a free-form one
Statuses == { "ready", "error", "paused" }

-----------------------------------------------------------------------------
(* JavaScript objects: ordered mappings *)

ObjKeys(o) == [i \in 1..Len(o) |-> o[i].k]

ObjHas(o, key) == \E i \in 1..Len(o) : o[i].k = key

\* o[key], None when the property is absent
ObjGet(o, key) ==
    IF ObjHas(o, key)
    THEN Some(o[CHOOSE i \in 1..Len(o) : o[i].k = key].v)
    ELSE None

\* o[key] = val: in place when the property exists, appended otherwise
ObjSet(o, key, val) ==
    IF ObjHas(o, key)
    THEN [i \in 1..Len(o) |-> IF o[i].k = key THEN [k |-> key, v |-> val] ELSE o[i]]
    ELSE Append(o, [k |-> key, v |-> val])

\* delete o[key]
ObjDelete(o, key) == SelectSeq(o, LAMBDA e : e.k # key)

-----------------------------------------------------------------------------
(* The registry document and the file that holds it *)

EmptyRegistry == [personas |-> <<>>, lastUpdated |-> None]

AbsentFile == [kind |-> "absent", data |-> EmptyRegistry]

CorruptFile == [kind |-> "corrupt", data |-> EmptyRegistry]

JsonFile(data) == [kind |-> "json", data |-> data]

\* _ensureRegistry as it would be if it replaced a file it cannot parse
_ensureRegistry_repairs(f) ==
    IF f.kind \in { "absent", "corrupt" } THEN JsonFile(EmptyRegistry) ELSE f

\* _ensureRegistry: writes the empty document when there is none
_ensureRegistry(f) == IF f.kind = "absent" THEN JsonFile(EmptyRegistry) ELSE f

\* _readRegistry: the parsed document, the empty registry when it does not parse
_readRegistry(f) ==
    IF _ensureRegistry(f).kind = "json" THEN _ensureRegistry(f).data ELSE EmptyRegistry

\* _writeRegistry as it would be if it wrote the document as it was given
_writeRegistry_asGiven(data, t) == JsonFile(data)

\* _writeRegistry: stamps the document and replaces the file
_writeRegistry(data, t) == JsonFile([data EXCEPT !.lastUpdated = Some(t)])

-----------------------------------------------------------------------------
(* Derived state *)

COMMON_KEYS ==
    << "openai", "anthropic", "google", "elevenlabs", "huggingface",
       "replicate", "stability", "midjourney", "custom" >>

\* _getMissingKeys as it would be without the filter
_getMissingKeys_all(configuredKeys) == COMMON_KEYS

\* _getMissingKeys(configuredKeys): the common kinds k with !configuredKeys[k].
\* Every marker of the model is the object addKey writes, which is truthy, so
\* !configuredKeys[k] is the absence of the property.
_getMissingKeys(configuredKeys) ==
    SelectSeq(COMMON_KEYS, LAMBDA key : ~ObjHas(configuredKeys, key))

\* persona.keys || {}
KeysOrEmpty(persona) == IF IsSome(persona.keys) THEN Get1(persona.keys) ELSE <<>>

\* _isPersonaReady as it would be if it asked for the status ready
_isPersonaReady_ready(persona) ==
    Len(ObjKeys(KeysOrEmpty(persona))) > 0 /\ persona.status = "ready"

\* _isPersonaReady as it would be if readiness meant a complete setup
_isPersonaReady_complete(persona) ==
    /\ Len(_getMissingKeys(KeysOrEmpty(persona))) = 0
    /\ persona.status # "error"

\* _isPersonaReady(persona)
_isPersonaReady(persona) ==
    Len(ObjKeys(KeysOrEmpty(persona))) > 0 /\ persona.status # "error"

-----------------------------------------------------------------------------
(* Reads: what each returns; the file they leave is _ensureRegistry(f) *)

\* get(name): None for null, else the record spread with the derived fields
get(f, name) ==
    LET registry == _readRegistry(f)
        found    == ObjGet(registry.personas, name)
        persona  == Get1(found)
    IN  IF ~IsSome(found)
        THEN None
        ELSE Some([ name           |-> name,
                    status         |-> persona.status,
                    repo           |-> persona.repo,
                    path           |-> persona.path,
                    keys           |-> persona.keys,
                    createdAt      |-> persona.createdAt,
                    lastUpdated    |-> persona.lastUpdated,
                    extra          |-> persona.extra,
                    keysConfigured |-> ObjKeys(KeysOrEmpty(persona)),
                    missingKeys    |-> _getMissingKeys(KeysOrEmpty(persona)),
                    isReady        |-> Some(_isPersonaReady(persona)) ])

\* an entry of list() as it would be if it were derived from no keys
ListEntry_noKeys(e) ==
    [ name           |-> e.k,
      status         |-> e.v.status,
      repo           |-> e.v.repo,
      path           |-> e.v.path,
      keysConfigured |-> <<>>,
      missingKeys    |-> COMMON_KEYS,
      createdAt      |-> e.v.createdAt,
      lastUpdated    |-> e.v.lastUpdated,
      isReady        |-> None ]

\* one entry of list(): the fields it copies; isReady is not among them
ListEntry(e) ==
    [ name           |-> e.k,
      status         |-> e.v.status,
      repo           |-> e.v.repo,
      path           |-> e.v.path,
      keysConfigured |-> ObjKeys(KeysOrEmpty(e.v)),
      missingKeys    |-> _getMissingKeys(KeysOrEmpty(e.v)),
      createdAt      |-> e.v.createdAt,
      lastUpdated    |-> e.v.lastUpdated,
      isReady        |-> None ]

\* list(): one entry per property of personas, in its order
list(f) ==
    LET entries == _readRegistry(f).personas
    IN  [i \in 1..Len(entries) |-> ListEntry(entries[i])]

\* getKeys(name)
getKeys(f, name) ==
    IF IsSome(get(f, name))
    THEN ObjKeys(KeysOrEmpty(Get1(get(f, name))))
    ELSE <<>>

-----------------------------------------------------------------------------
(* Writes: each gives the file it leaves and what it returns.  ts are the  *)
(* readings of the clock, one per new Date() in the order of evaluation.   *)

\* wrote: whether the call reached _writeRegistry
Result(f, ret, wrote) == [file |-> f, ret |-> ret, wrote |-> wrote]

\* register as it would be if a new record were ready at once
NewRecord_ready(old, repo, path, ts) ==
    [ status      |-> "ready",
      repo        |-> repo,
      path        |-> path,
      keys        |-> Some(<<>>),
      createdAt   |-> IF IsSome(old) THEN Get1(old).createdAt ELSE ts[1],
      lastUpdated |-> ts[2],
      extra       |-> None ]

\* register as it would be with createdAt always stamped anew
NewRecord_stampsCreatedAt(old, repo, path, ts) ==
    [ status      |-> "needs-setup",
      repo        |-> repo,
      path        |-> path,
      keys        |-> Some(<<>>),
      createdAt   |-> ts[1],
      lastUpdated |-> ts[2],
      extra       |-> None ]

\* register as it would be if it updated the record it finds
NewRecord_keepsOld(old, repo, path, ts) ==
    [ status      |-> IF IsSome(old) THEN Get1(old).status ELSE "needs-setup",
      repo        |-> repo,
      path        |-> path,
      keys        |-> IF IsSome(old) THEN Get1(old).keys ELSE Some(<<>>),
      createdAt   |-> IF IsSome(old) THEN Get1(old).createdAt ELSE ts[1],
      lastUpdated |-> ts[2],
      extra       |-> None ]

\* the object literal of register; old is registry.personas[name]
NewRecord(old, repo, path, ts) ==
    [ status      |-> "needs-setup",
      repo        |-> repo,
      path        |-> path,
      keys        |-> Some(<<>>),
      createdAt   |-> IF IsSome(old) THEN Get1(old).createdAt ELSE ts[1],
      lastUpdated |-> ts[2],
      extra       |-> None ]

\* register(name, repo, path)
register(f, name, repo, path, ts) ==
    LET registry == _readRegistry(f)
        record   == NewRecord(ObjGet(registry.personas, name), repo, path, ts)
    IN  Result(_writeRegistry([registry EXCEPT !.personas = ObjSet(@, name, record)],
                              ts[3]),
               record, TRUE)

\* updateStatus as it would be if it stamped every record of the document
updateStatus_stampsAll(f, name, status, ts) ==
    LET registry == _readRegistry(f)
        persona  == Get1(ObjGet(registry.personas, name))
        updated  == [persona EXCEPT !.status = status, !.lastUpdated = ts[1]]
        stamped  == [i \in 1..Len(registry.personas) |->
                        [registry.personas[i] EXCEPT !.v.lastUpdated = ts[1]]]
    IN  IF ~ObjHas(registry.personas, name)
        THEN Result(_ensureRegistry(f), FALSE, FALSE)
        ELSE Result(_writeRegistry([registry EXCEPT
                                        !.personas = ObjSet(stamped, name, updated)],
                                   ts[2]),
                    TRUE, TRUE)

\* updateStatus as it would be if it took the three known statuses only
updateStatus_validates(f, name, status, ts) ==
    LET registry == _readRegistry(f)
        persona  == Get1(ObjGet(registry.personas, name))
        updated  == [persona EXCEPT !.status = status, !.lastUpdated = ts[1]]
    IN  IF \/ ~ObjHas(registry.personas, name)
           \/ status \notin { "needs-setup", "ready", "error" }
        THEN Result(_ensureRegistry(f), FALSE, FALSE)
        ELSE Result(_writeRegistry([registry EXCEPT
                                        !.personas = ObjSet(@, name, updated)],
                                   ts[2]),
                    TRUE, TRUE)

\* updateStatus as it would be if it rebuilt the record from the fields it knows
updateStatus_rebuilds(f, name, status, ts) ==
    LET registry == _readRegistry(f)
        persona  == Get1(ObjGet(registry.personas, name))
        updated  == [persona EXCEPT !.status = status, !.lastUpdated = ts[1],
                                    !.extra = None]
    IN  IF ~ObjHas(registry.personas, name)
        THEN Result(_ensureRegistry(f), FALSE, FALSE)
        ELSE Result(_writeRegistry([registry EXCEPT
                                        !.personas = ObjSet(@, name, updated)],
                                   ts[2]),
                    TRUE, TRUE)

\* updateStatus(name, status)
updateStatus(f, name, status, ts) ==
    LET registry == _readRegistry(f)
        persona  == Get1(ObjGet(registry.personas, name))
        updated  == [persona EXCEPT !.status = status, !.lastUpdated = ts[1]]
    IN  IF ~ObjHas(registry.personas, name)
        THEN Result(_ensureRegistry(f), FALSE, FALSE)
        ELSE Result(_writeRegistry([registry EXCEPT
                                        !.personas = ObjSet(@, name, updated)],
                                   ts[2]),
                    TRUE, TRUE)

\* addKey as it would be if it deleted the marker before it set it
addKey_reinserts(f, name, keyType, ts) ==
    LET registry == _readRegistry(f)
        persona  == Get1(ObjGet(registry.personas, name))
        marker   == [configured |-> TRUE, configuredAt |-> ts[1]]
        updated  == [persona EXCEPT
                        !.keys = Some(ObjSet(ObjDelete(KeysOrEmpty(persona), keyType),
                                             keyType, marker)),
                        !.lastUpdated = ts[2]]
    IN  IF ~ObjHas(registry.personas, name)
        THEN Result(_ensureRegistry(f), FALSE, FALSE)
        ELSE Result(_writeRegistry([registry EXCEPT
                                        !.personas = ObjSet(@, name, updated)],
                                   ts[3]),
                    TRUE, TRUE)

\* addKey as it would be if it replaced the keys mapping
addKey_replaces(f, name, keyType, ts) ==
    LET registry == _readRegistry(f)
        persona  == Get1(ObjGet(registry.personas, name))
        marker   == [configured |-> TRUE, configuredAt |-> ts[1]]
        updated  == [persona EXCEPT
                        !.keys = Some(ObjSet(<<>>, keyType, marker)),
                        !.lastUpdated = ts[2]]
    IN  IF ~ObjHas(registry.personas, name)
        THEN Result(_ensureRegistry(f), FALSE, FALSE)
        ELSE Result(_writeRegistry([registry EXCEPT
                                        !.personas = ObjSet(@, name, updated)],
                                   ts[3]),
                    TRUE, TRUE)

\* addKey(name, keyType)
addKey(f, name, keyType, ts) ==
    LET registry == _readRegistry(f)
        persona  == Get1(ObjGet(registry.personas, name))
        marker   == [configured |-> TRUE, configuredAt |-> ts[1]]
        updated  == [persona EXCEPT
                        !.keys = Some(ObjSet(KeysOrEmpty(persona), keyType, marker)),
                        !.lastUpdated = ts[2]]
    IN  IF ~ObjHas(registry.personas, name)
        THEN Result(_ensureRegistry(f), FALSE, FALSE)
        ELSE Result(_writeRegistry([registry EXCEPT
                                        !.personas = ObjSet(@, name, updated)],
                                   ts[3]),
                    TRUE, TRUE)

\* removeKey as it would be if it took a record without keys as one with none
removeKey_createsKeys(f, name, keyType, ts) ==
    LET registry == _readRegistry(f)
        found    == ObjGet(registry.personas, name)
        persona  == Get1(found)
        updated  == [persona EXCEPT
                        !.keys = Some(ObjDelete(KeysOrEmpty(persona), keyType)),
                        !.lastUpdated = ts[1]]
    IN  IF ~IsSome(found)
        THEN Result(_ensureRegistry(f), FALSE, FALSE)
        ELSE Result(_writeRegistry([registry EXCEPT
                                        !.personas = ObjSet(@, name, updated)],
                                   ts[2]),
                    TRUE, TRUE)

\* removeKey as it would be if it refused a kind that is not configured
removeKey_refuses(f, name, keyType, ts) ==
    LET registry == _readRegistry(f)
        found    == ObjGet(registry.personas, name)
        persona  == Get1(found)
        updated  == [persona EXCEPT
                        !.keys = Some(ObjDelete(Get1(persona.keys), keyType)),
                        !.lastUpdated = ts[1]]
    IN  IF \/ ~IsSome(found)
           \/ ~IsSome(persona.keys)
           \/ ~ObjHas(Get1(persona.keys), keyType)
        THEN Result(_ensureRegistry(f), FALSE, FALSE)
        ELSE Result(_writeRegistry([registry EXCEPT
                                        !.personas = ObjSet(@, name, updated)],
                                   ts[2]),
                    TRUE, TRUE)

\* removeKey(name, keyType)
removeKey(f, name, keyType, ts) ==
    LET registry == _readRegistry(f)
        found    == ObjGet(registry.personas, name)
        persona  == Get1(found)
        updated  == [persona EXCEPT
                        !.keys = Some(ObjDelete(Get1(persona.keys), keyType)),
                        !.lastUpdated = ts[1]]
    IN  IF ~IsSome(found) \/ ~IsSome(persona.keys)
        THEN Result(_ensureRegistry(f), FALSE, FALSE)
        ELSE Result(_writeRegistry([registry EXCEPT
                                        !.personas = ObjSet(@, name, updated)],
                                   ts[2]),
                    TRUE, TRUE)

\* unregister as it would be if it emptied the personas mapping
unregister_clears(f, name, ts) ==
    LET registry == _readRegistry(f)
    IN  IF ~ObjHas(registry.personas, name)
        THEN Result(_ensureRegistry(f), FALSE, FALSE)
        ELSE Result(_writeRegistry([registry EXCEPT !.personas = <<>>], ts[1]),
                    TRUE, TRUE)

\* unregister as it would be if it wrote the document back in every case
unregister_alwaysWrites(f, name, ts) ==
    LET registry == _readRegistry(f)
    IN  IF ~ObjHas(registry.personas, name)
        THEN Result(_writeRegistry(registry, ts[1]), FALSE, TRUE)
        ELSE Result(_writeRegistry([registry EXCEPT !.personas = ObjDelete(@, name)],
                                   ts[1]),
                    TRUE, TRUE)

\* unregister(name)
unregister(f, name, ts) ==
    LET registry == _readRegistry(f)
    IN  IF ~ObjHas(registry.personas, name)
        THEN Result(_ensureRegistry(f), FALSE, FALSE)
        ELSE Result(_writeRegistry([registry EXCEPT !.personas = ObjDelete(@, name)],
                                   ts[1]),
                    TRUE, TRUE)

-----------------------------------------------------------------------------
(* The state machine: one action per exported function of the registry.    *)
(* last is the last call: what was called, on what, what it returned, the   *)
(* readings of the clock it made and, for a command made of steps, the      *)
(* steps it ran or the error it ended in; prev is the file it found.  procs *)
(* and events are the                                                       *)
(* invocations that run side by side, each in a process of its own, and     *)
(* the order of their reads and writes of the file.                         *)

\* the processes that run a registry function side by side
Procs == { "A", "B" }

\* a process that has not called anything yet
Idle == [pc |-> "idle", op |-> "none", name |-> <<>>, arg |-> "none",
         registry |-> EmptyRegistry, wrote |-> FALSE]

Init ==
    /\ file = AbsentFile
    /\ clock = 0
    /\ last = [op |-> "init", name |-> <<>>, arg |-> <<>>, ret |-> None, at |-> <<>>,
               ran |-> <<>>]
    /\ prev = AbsentFile
    /\ procs = [p \in Procs |-> Idle]
    /\ events = <<>>

\* a command that ran the steps ran, leaves the file f and returns ret,
\* having read the clock at
StepRan(op, name, arg, f, ret, at, ran) ==
    /\ file' = f
    /\ last' = [op |-> op, name |-> name, arg |-> arg, ret |-> ret, at |-> at,
                ran |-> ran]
    /\ prev' = file
    /\ clock' = IF at = <<>> THEN clock ELSE at[Len(at)]
    /\ UNCHANGED <<procs, events>>

\* a call that leaves the file f and returns ret, having read the clock at
Step(op, name, arg, f, ret, at) == StepRan(op, name, arg, f, ret, at, <<>>)

\* a call of a registry function that gave the result r with the readings ts
Call(op, name, arg, r, ts) ==
    Step(op, name, arg, r.file, r.ret, IF r.wrote THEN ts ELSE <<>>)

\* get as it would be if it wrote the document back
Get_writes(name) ==
    Step("get", name, <<>>, _writeRegistry(_readRegistry(file), clock),
         get(file, name), <<>>)

Get(name) == Step("get", name, <<>>, _ensureRegistry(file), get(file, name), <<>>)

List == Step("list", <<>>, <<>>, _ensureRegistry(file), list(file), <<>>)

\* getKeys as it would be if it wrote the document back
GetKeys_writes(name) ==
    Step("getKeys", name, <<>>, _writeRegistry(_readRegistry(file), clock),
         getKeys(file, name), <<>>)

GetKeys(name) ==
    Step("getKeys", name, <<>>, _ensureRegistry(file), getKeys(file, name), <<>>)

Register(name, repo, path) ==
    \E ts \in Readings(clock, 3) :
        Call("register", name, <<repo, path>>, register(file, name, repo, path, ts), ts)

UpdateStatus(name, status) ==
    \E ts \in Readings(clock, 2) :
        Call("updateStatus", name, status, updateStatus(file, name, status, ts), ts)

AddKey(name, keyType) ==
    \E ts \in Readings(clock, 3) :
        Call("addKey", name, keyType, addKey(file, name, keyType, ts), ts)

RemoveKey(name, keyType) ==
    \E ts \in Readings(clock, 2) :
        Call("removeKey", name, keyType, removeKey(file, name, keyType, ts), ts)

Unregister(name) ==
    \E ts \in Readings(clock, 1) :
        Call("unregister", name, <<>>, unregister(file, name, ts), ts)

-----------------------------------------------------------------------------
(* The commands of index.js and the repository bootstrap they call *)

githubOrg == "greenclawdbot"

\* path.join(HOME, 'personas', name)
PersonaPath(name) == <<"~/personas/">> \o name

\* `${githubOrg}/goc-persona-${name}`
GithubRepo(name) == <<githubOrg, "/", "goc-persona-">> \o name

\* repoName.replace(/^goc-persona-/, '')
StripPrefix(repoName) ==
    IF Len(repoName) > 0 /\ Head(repoName) = "goc-persona-"
    THEN Tail(repoName)
    ELSE repoName

\* initializeRepo(localPath, repoName, orgName) when every git and gh step
\* succeeds: it registers the stripped name under `${orgName}/${repoName}`.
\* When a step throws it registers nothing and reports the failure.
initializeRepo(f, localPath, repoName, orgName, ts) ==
    Result(register(f, StripPrefix(repoName), <<orgName, "/">> \o repoName,
                    localPath, ts).file,
           TRUE, TRUE)

\* the outcomes of the three steps that precede the registration
Outcomes == { "scaffold-throws", "config-throws", "bootstrap-fails", "bootstrap-ok" }

\* the steps of create-persona, in the order of its awaits
CreateSteps == << "createPersona", "createConfig", "initializeRepo", "register" >>

\* create-persona as it would be if only a bootstrapped persona were registered
CreatePersona_needsBootstrap(name, outcome) ==
    \E ts \in Readings(clock, 6) :
        LET boot == IF outcome = "bootstrap-ok"
                    THEN initializeRepo(file, PersonaPath(name), name, githubOrg,
                                        SubSeq(ts, 1, 3))
                    ELSE Result(file, FALSE, FALSE)
            reg  == register(boot.file, name, GithubRepo(name), PersonaPath(name),
                             SubSeq(ts, 4, 6))
        IN  IF outcome = "scaffold-throws"
            THEN StepRan("create-persona", name, outcome, file, FALSE, <<>>,
                         SubSeq(CreateSteps, 1, 1))
            ELSE IF outcome = "config-throws"
            THEN StepRan("create-persona", name, outcome, file, FALSE, <<>>,
                         SubSeq(CreateSteps, 1, 2))
            ELSE IF outcome = "bootstrap-fails"
            THEN StepRan("create-persona", name, outcome, file, TRUE, <<>>,
                         SubSeq(CreateSteps, 1, 3))
            ELSE StepRan("create-persona", name, outcome, reg.file, TRUE, ts,
                         CreateSteps)

\* create-persona as it would be if a failure of createConfig were caught
CreatePersona_configCaught(name, outcome) ==
    \E ts \in Readings(clock, 6) :
        LET boot == IF outcome = "bootstrap-ok"
                    THEN initializeRepo(file, PersonaPath(name), name, githubOrg,
                                        SubSeq(ts, 1, 3))
                    ELSE Result(file, FALSE, FALSE)
            reg  == register(boot.file, name, GithubRepo(name), PersonaPath(name),
                             SubSeq(ts, 4, 6))
        IN  IF outcome = "scaffold-throws"
            THEN StepRan("create-persona", name, outcome, file, FALSE, <<>>,
                         SubSeq(CreateSteps, 1, 1))
            ELSE StepRan("create-persona", name, outcome, reg.file, TRUE,
                         IF boot.wrote THEN ts ELSE SubSeq(ts, 4, 6),
                         CreateSteps)

\* create-persona: createPersona, createConfig, initializeRepo, registry.register.
\* A throw of the first two ends the command; the bootstrap's failure does not.
CreatePersona(name, outcome) ==
    \E ts \in Readings(clock, 6) :
        LET boot == IF outcome = "bootstrap-ok"
                    THEN initializeRepo(file, PersonaPath(name), name, githubOrg,
                                        SubSeq(ts, 1, 3))
                    ELSE Result(file, FALSE, FALSE)
            reg  == register(boot.file, name, GithubRepo(name), PersonaPath(name),
                             SubSeq(ts, 4, 6))
        IN  IF outcome = "scaffold-throws"
            THEN StepRan("create-persona", name, outcome, file, FALSE, <<>>,
                         SubSeq(CreateSteps, 1, 1))
            ELSE IF outcome = "config-throws"
            THEN StepRan("create-persona", name, outcome, file, FALSE, <<>>,
                         SubSeq(CreateSteps, 1, 2))
            ELSE StepRan("create-persona", name, outcome, reg.file, TRUE,
                         IF boot.wrote THEN ts ELSE SubSeq(ts, 4, 6),
                         CreateSteps)

\* the --repo and --path given to the register command: both or neither
GivenArgs ==
    { [repo |-> None, path |-> None],
      [repo |-> Some(<<"org", "/", "demo">>), path |-> Some(<<"/tmp/demo">>)] }

\* register (the command) as it would be without the look at the path
RegisterCommand_noLook(name, repo, path, exists) ==
    \E ts \in Readings(clock, 3) :
        LET resolvedPath == IF IsSome(path) THEN Get1(path) ELSE PersonaPath(name)
            resolvedRepo == IF IsSome(repo) THEN Get1(repo) ELSE GithubRepo(name)
        IN  Step("register-command", name, <<resolvedRepo, resolvedPath, exists>>,
                 register(file, name, resolvedRepo, resolvedPath, ts).file,
                 TRUE, ts)

\* register (the command): refuses a path that does not exist, else registers;
\* exists is what existsSync(resolvedPath) answers
RegisterCommand(name, repo, path, exists) ==
    \E ts \in Readings(clock, 3) :
        LET resolvedPath == IF IsSome(path) THEN Get1(path) ELSE PersonaPath(name)
            resolvedRepo == IF IsSome(repo) THEN Get1(repo) ELSE GithubRepo(name)
        IN  IF ~exists
            THEN Step("register-command", name, <<resolvedRepo, resolvedPath, exists>>,
                      file, FALSE, <<>>)
            ELSE Step("register-command", name, <<resolvedRepo, resolvedPath, exists>>,
                      register(file, name, resolvedRepo, resolvedPath, ts).file,
                      TRUE, ts)

\* registerExistingRepo(localPath, repoName, orgName): refuses a path that
\* does not exist, else registers the name that repoName stands for
RegisterExistingRepo(localPath, repoName, orgName, exists) ==
    \E ts \in Readings(clock, 3) :
        LET githubRepo   == <<orgName, "/">> \o repoName
            personaName  == StripPrefix(repoName)
        IN  IF ~exists
            THEN Step("registerExistingRepo", repoName, <<githubRepo, localPath, exists>>,
                      file, FALSE, <<>>)
            ELSE Step("registerExistingRepo", repoName, <<githubRepo, localPath, exists>>,
                      register(file, personaName, githubRepo, localPath, ts).file,
                      TRUE, ts)

\* add-key as it would be if only a persona in needs-setup were promoted
AddKeyCommand_fromNeedsSetup(name, keyType) ==
    \E ts \in Readings(clock, 5) :
        LET added          == addKey(file, name, keyType, SubSeq(ts, 1, 3))
            updatedPersona == Get1(get(added.file, name))
            ready          == updateStatus(added.file, name, "ready", SubSeq(ts, 4, 5))
        IN  IF ~IsSome(get(file, name))
            THEN Step("add-key", name, keyType, _ensureRegistry(file), FALSE, <<>>)
            ELSE IF /\ Len(updatedPersona.missingKeys) = 0
                    /\ updatedPersona.status = "needs-setup"
            THEN Step("add-key", name, keyType, ready.file, TRUE, ts)
            ELSE Step("add-key", name, keyType, added.file, TRUE, SubSeq(ts, 1, 3))

\* add-key: get, addKey, get again, and updateStatus when nothing is missing
AddKeyCommand(name, keyType) ==
    \E ts \in Readings(clock, 5) :
        LET added          == addKey(file, name, keyType, SubSeq(ts, 1, 3))
            updatedPersona == Get1(get(added.file, name))
            ready          == updateStatus(added.file, name, "ready", SubSeq(ts, 4, 5))
        IN  IF ~IsSome(get(file, name))
            THEN Step("add-key", name, keyType, _ensureRegistry(file), FALSE, <<>>)
            ELSE IF /\ Len(updatedPersona.missingKeys) = 0
                    /\ updatedPersona.status # "ready"
            THEN Step("add-key", name, keyType, ready.file, TRUE, ts)
            ELSE Step("add-key", name, keyType, added.file, TRUE, SubSeq(ts, 1, 3))

\* status: what the command prints of get(name) and getKeys(name), or None
\* when it reports that the persona is not found
StatusCommand(name) ==
    LET persona == get(file, name)
        keys    == getKeys(file, name)
    IN  IF ~IsSome(persona)
        THEN Step("status", name, <<>>, _ensureRegistry(file), None, <<>>)
        ELSE Step("status", name, <<>>, _ensureRegistry(file),
                  Some([ status  |-> Get1(persona).status,
                         keys    |-> keys,
                         missing |-> Get1(persona).missingKeys,
                         ready   |-> Get1(persona).isReady ]),
                  <<>>)

-----------------------------------------------------------------------------
(* Another writer of the document: a later version of the tool, a hand      *)
(* edit or a broken write, that leaves JSON the registry does not fully     *)
(* know or text that is not JSON                                            *)

\* adds a field the registry does not know to the record of name
ForeignAddField(name) ==
    /\ file.kind = "json"
    /\ ObjHas(file.data.personas, name)
    /\ LET persona == Get1(ObjGet(file.data.personas, name))
       IN  /\ persona.extra = None
           /\ file' = JsonFile([file.data EXCEPT !.personas =
                         ObjSet(@, name, [persona EXCEPT !.extra = Some("note")])])
    /\ last' = [op |-> "foreign", name |-> name, arg |-> "extra", ret |-> None, at |-> <<>>,
                ran |-> <<>>]
    /\ prev' = file
    /\ UNCHANGED <<clock, procs, events>>

\* leaves text in the file that JSON.parse rejects
ForeignCorrupt ==
    /\ file.kind = "json"
    /\ file' = CorruptFile
    /\ last' = [op |-> "foreign", name |-> <<>>, arg |-> "corrupt", ret |-> None,
                at |-> <<>>, ran |-> <<>>]
    /\ prev' = file
    /\ UNCHANGED <<clock, procs, events>>

\* parsable JSON that is an object without a personas property
NoPersonas == [lastUpdated |-> None]

\* leaves JSON in the file that has no personas mapping
ForeignShapeless ==
    /\ file.kind = "json"
    /\ "personas" \in DOMAIN file.data
    /\ file' = JsonFile(NoPersonas)
    /\ last' = [op |-> "foreign", name |-> <<>>, arg |-> "shapeless", ret |-> None,
                at |-> <<>>, ran |-> <<>>]
    /\ prev' = file
    /\ UNCHANGED <<clock, procs, events>>

\* registry.personas of what _readRegistry returns for f is undefined, so
\* that registry.personas[name] and Object.entries(registry.personas) throw
ThrowsTypeError(f) ==
    /\ _ensureRegistry(f).kind = "json"
    /\ "personas" \notin DOMAIN _readRegistry(f)

\* a call of a registry function on whatever the file holds: it ends in the
\* TypeError, which nothing catches, or is the call
Uncaught(op, name, arg, call) ==
    IF ThrowsTypeError(file)
    THEN StepRan(op, name, arg, file, None, <<>>, << "TypeError" >>)
    ELSE call

\* writes the record of name without its keys mapping
ForeignDropKeys(name) ==
    /\ file.kind = "json"
    /\ ObjHas(file.data.personas, name)
    /\ LET persona == Get1(ObjGet(file.data.personas, name))
       IN  /\ persona.keys # None
           /\ file' = JsonFile([file.data EXCEPT !.personas =
                         ObjSet(@, name, [persona EXCEPT !.keys = None])])
    /\ last' = [op |-> "foreign", name |-> name, arg |-> "keys", ret |-> None, at |-> <<>>,
                ran |-> <<>>]
    /\ prev' = file
    /\ UNCHANGED <<clock, procs, events>>

-----------------------------------------------------------------------------
(* Two invocations in two processes: each reads the document, changes its   *)
(* copy and writes the copy back; what the other wrote in between is not    *)
(* looked at again                                                          *)

\* what the function op makes of the file f
Apply(op, f, name, arg, ts) ==
    IF op = "addKey"
    THEN addKey(f, name, arg, ts)
    ELSE IF op = "removeKey"
    THEN removeKey(f, name, arg, SubSeq(ts, 1, 2))
    ELSE IF op = "unregister"
    THEN unregister(f, name, SubSeq(ts, 1, 1))
    ELSE updateStatus(f, name, arg, SubSeq(ts, 1, 2))

\* the const registry = _readRegistry() of the function p calls
ProcRead(p, op, name, arg) ==
    /\ procs[p].pc = "idle"
    /\ procs' = [procs EXCEPT ![p] = [pc |-> "read", op |-> op, name |-> name,
                                      arg |-> arg,
                                      registry |-> _readRegistry(file),
                                      wrote |-> FALSE]]
    /\ events' = Append(events, <<p, "read">>)
    /\ file' = _ensureRegistry(file)
    /\ last' = [op |-> "read", name |-> name, arg |-> arg, ret |-> None,
                at |-> <<>>, ran |-> <<>>]
    /\ prev' = file
    /\ UNCHANGED clock

\* the rest of the function as it would be if it looked for the persona in
\* the document again and gave up without it
ProcWrite_looksAgain(p) ==
    /\ procs[p].pc = "read"
    /\ \E ts \in Readings(clock, 3) :
          LET r == Apply(procs[p].op, JsonFile(procs[p].registry),
                         procs[p].name, procs[p].arg, ts)
              w == r.wrote /\ ObjHas(_readRegistry(file).personas, procs[p].name)
          IN  /\ file' = IF w THEN r.file ELSE file
              /\ procs' = [procs EXCEPT ![p].pc = "done", ![p].wrote = w]
              /\ events' = Append(events, <<p, IF w THEN "write" ELSE "return">>)
              /\ last' = [op |-> procs[p].op, name |-> procs[p].name,
                          arg |-> procs[p].arg, ret |-> r.ret,
                          at |-> IF w THEN ts ELSE <<>>, ran |-> <<>>]
              /\ prev' = file
              /\ clock' = IF w THEN ts[Len(ts)] ELSE clock

\* the rest of the function as it would be if it read the document again
ProcWrite_rereads(p) ==
    /\ procs[p].pc = "read"
    /\ \E ts \in Readings(clock, 3) :
          LET r == Apply(procs[p].op, file, procs[p].name, procs[p].arg, ts)
          IN  /\ file' = IF r.wrote THEN r.file ELSE file
              /\ procs' = [procs EXCEPT ![p].pc = "done", ![p].wrote = r.wrote]
              /\ events' = Append(events, <<p, IF r.wrote THEN "write" ELSE "return">>)
              /\ last' = [op |-> procs[p].op, name |-> procs[p].name,
                          arg |-> procs[p].arg, ret |-> r.ret,
                          at |-> IF r.wrote THEN ts ELSE <<>>, ran |-> <<>>]
              /\ prev' = file
              /\ clock' = IF r.wrote THEN ts[Len(ts)] ELSE clock

\* the rest of the function p calls: the change of the copy it read and
\* _writeRegistry(registry), or the return of false
ProcWrite(p) ==
    /\ procs[p].pc = "read"
    /\ \E ts \in Readings(clock, 3) :
          LET r == Apply(procs[p].op, JsonFile(procs[p].registry),
                         procs[p].name, procs[p].arg, ts)
          IN  /\ file' = IF r.wrote THEN r.file ELSE file
              /\ procs' = [procs EXCEPT ![p].pc = "done", ![p].wrote = r.wrote]
              /\ events' = Append(events, <<p, IF r.wrote THEN "write" ELSE "return">>)
              /\ last' = [op |-> procs[p].op, name |-> procs[p].name,
                          arg |-> procs[p].arg, ret |-> r.ret,
                          at |-> IF r.wrote THEN ts ELSE <<>>, ran |-> <<>>]
              /\ prev' = file
              /\ clock' = IF r.wrote THEN ts[Len(ts)] ELSE clock

-----------------------------------------------------------------------------
(* Specifications *)

\* One persona, every function and command on it with every input.
Next ==
    \/ \E name \in Managed : Get(name)
    \/ List
    \/ \E name \in Managed : GetKeys(name)
    \/ \E name \in Managed : Register(name, <<"org", "/", "demo">>, <<"/tmp/demo">>)
    \/ \E name \in Managed, status \in Statuses : UpdateStatus(name, status)
    \/ \E name \in Managed, keyType \in KeyTypes : AddKey(name, keyType)
    \/ \E name \in Managed, keyType \in KeyTypes : RemoveKey(name, keyType)
    \/ \E name \in Managed : Unregister(name)
    \/ \E name \in Managed, outcome \in Outcomes : CreatePersona(name, outcome)
    \/ \E name \in Managed, given \in GivenArgs, exists \in BOOLEAN :
          RegisterCommand(name, given.repo, given.path, exists)
    \/ \E name \in Managed, keyType \in KeyTypes : AddKeyCommand(name, keyType)

Spec == Init /\ [][Next]_vars

\* Two personas, one named as the other with the prefix goc-persona-: both
\* are created, read and unregistered, and one of them is managed.
NextNames ==
    \/ \E name \in Names : Get(name)
    \/ List
    \/ \E name \in Managed : Register(name, <<"org", "/", "demo">>, <<"/tmp/demo">>)
    \/ \E name \in Managed : UpdateStatus(name, "error")
    \/ \E name \in Managed, keyType \in KeyTypes : AddKey(name, keyType)
    \/ \E name \in Managed : RemoveKey(name, "openai")
    \/ \E name \in Names : Unregister(name)
    \/ \E name \in Names, outcome \in { "bootstrap-fails", "bootstrap-ok" } :
          CreatePersona(name, outcome)

SpecNames == Init /\ [][NextNames]_vars

\* One persona set up to the end: the common kinds are added in the order of
\* COMMON_KEYS, by addKey or by the add-key command, and discord once none
\* is missing.
GuideKeyTypes(name) ==
    IF ~IsSome(get(file, name))
    THEN { COMMON_KEYS[1] }
    ELSE IF Get1(get(file, name)).missingKeys # <<>>
    THEN { Head(Get1(get(file, name)).missingKeys) }
    ELSE { "discord" }

NextSetup ==
    \/ \E name \in Managed : Register(name, <<"org", "/", "demo">>, <<"/tmp/demo">>)
    \/ \E name \in Managed, status \in Statuses : UpdateStatus(name, status)
    \/ \E name \in Managed : \E keyType \in GuideKeyTypes(name) : AddKey(name, keyType)
    \/ \E name \in Managed : \E keyType \in GuideKeyTypes(name) : AddKeyCommand(name, keyType)

SpecSetup == Init /\ [][NextSetup]_vars

\* A persona is registered and given keys by one invocation at a time; then
\* two invocations run side by side, each one of addKey, updateStatus,
\* removeKey and unregister.
NextRace ==
    \/ /\ events = <<>>
       /\ \E name \in Managed : Register(name, <<"org", "/", "demo">>, <<"/tmp/demo">>)
    \/ /\ events = <<>>
       /\ \E name \in Managed : AddKey(name, "discord")
    \/ \E p \in Procs, name \in Managed, keyType \in KeyTypes :
          ProcRead(p, "addKey", name, keyType)
    \/ \E p \in Procs, name \in Managed : ProcRead(p, "updateStatus", name, "error")
    \/ \E p \in Procs, name \in Managed : ProcRead(p, "removeKey", name, "discord")
    \/ \E p \in Procs, name \in Managed : ProcRead(p, "unregister", name, "none")
    \/ \E p \in Procs : ProcWrite(p)

SpecRace == Init /\ [][NextRace]_vars

\* The document is also written by others: the foreign writes, the functions
\* on the managed persona with one input each, and create-persona and
\* unregister on both names.
NextForeign ==
    \/ \E name \in Managed : Register(name, <<"org", "/", "demo">>, <<"/tmp/demo">>)
    \/ \E name \in Managed : UpdateStatus(name, "error")
    \/ \E name \in Managed : AddKey(name, "openai")
    \/ \E name \in Managed : RemoveKey(name, "openai")
    \/ \E name \in Names : Unregister(name)
    \/ \E name \in Names : CreatePersona(name, "bootstrap-ok")
    \/ \E name \in Names : ForeignAddField(name)
    \/ \E name \in Managed : ForeignDropKeys(name)
    \/ ForeignCorrupt

SpecForeign == Init /\ [][NextForeign]_vars

\* the kinds the setup guide has the operator add
SetupGuideKeys == { "openai", "anthropic", "elevenlabs", "discord" }

\* One persona set up as the setup guide says: created, given the keys of the
\* guide by the add-key command, and looked at with the status command.
NextGuide ==
    \/ \E name \in Managed : CreatePersona(name, "bootstrap-ok")
    \/ \E name \in Managed, keyType \in SetupGuideKeys : AddKeyCommand(name, keyType)
    \/ \E name \in Managed : StatusCommand(name)

SpecGuide == Init /\ [][NextGuide]_vars

\* The registry functions on a file that others damage: text that is not
\* JSON, or JSON without a personas mapping.
NextDamaged ==
    \/ \E name \in Names : Uncaught("get", name, <<>>, Get(name))
    \/ Uncaught("list", <<>>, <<>>, List)
    \/ \E name \in Managed : Uncaught("getKeys", name, <<>>, GetKeys(name))
    \/ \E name \in Names :
          Uncaught("register", name, << <<"org", "/", "demo">>, <<"/tmp/demo">> >>,
                   Register(name, <<"org", "/", "demo">>, <<"/tmp/demo">>))
    \/ \E name \in Managed : Uncaught("updateStatus", name, "error",
                                      UpdateStatus(name, "error"))
    \/ \E name \in Managed : Uncaught("addKey", name, "openai", AddKey(name, "openai"))
    \/ \E name \in Managed : Uncaught("removeKey", name, "openai",
                                      RemoveKey(name, "openai"))
    \/ \E name \in Managed : Uncaught("unregister", name, <<>>, Unregister(name))
    \/ ForeignCorrupt
    \/ ForeignShapeless

SpecDamaged == Init /\ [][NextDamaged]_vars

\* Personas registered by hand, by the register command and by
\* registerExistingRepo, at paths that exist and at paths that do not.
NextManual ==
    \/ \E name \in Managed, given \in GivenArgs, exists \in BOOLEAN :
          RegisterCommand(name, given.repo, given.path, exists)
    \/ \E repoName \in Names, exists \in BOOLEAN :
          RegisterExistingRepo(<<"/tmp/demo">>, repoName, githubOrg, exists)
    \/ \E name \in Managed, keyType \in KeyTypes : AddKey(name, keyType)
    \/ \E name \in Managed : Unregister(name)

SpecManual == Init /\ [][NextManual]_vars

\* One persona whose keys are added and removed, and whose record another
\* writer leaves without its keys mapping.
NextKeys ==
    \/ \E name \in Managed : Register(name, <<"org", "/", "demo">>, <<"/tmp/demo">>)
    \/ \E name \in Managed, keyType \in KeyTypes : AddKey(name, keyType)
    \/ \E name \in Managed, keyType \in KeyTypes : RemoveKey(name, keyType)
    \/ \E name \in Managed : Unregister(name)
    \/ \E name \in Managed : ForeignDropKeys(name)

SpecKeys == Init /\ [][NextKeys]_vars

-----------------------------------------------------------------------------
(* What the claims are stated with *)

\* the record of name in the file f
Rec(f, name) == Get1(ObjGet(_readRegistry(f).personas, name))

Registered(f, name) == ObjHas(_readRegistry(f).personas, name)

\* the kinds in the keys mapping of the record of name
Kinds(f, name) ==
    { KeysOrEmpty(Rec(f, name))[i].k : i \in 1..Len(KeysOrEmpty(Rec(f, name))) }

Range(seq) == { seq[i] : i \in 1..Len(seq) }

\* the last call was register(name, repo, path), direct or by the register command
RegisterReturned ==
    \/ last.op = "register"
    \/ last.op = "register-command" /\ last.ret = TRUE

\* the names the last call registered: register and the register command
\* theirs, create-persona its own and, with the bootstrap, the stripped one
RegisteredByLast ==
    IF RegisterReturned
    THEN { last.name }
    ELSE IF last.op = "create-persona" /\ last.ret = TRUE
    THEN { last.name } \cup (IF last.arg = "bootstrap-ok"
                             THEN { StripPrefix(last.name) }
                             ELSE {})
    ELSE {}

\* the last call unregistered name
UnregisteredByLast(name) ==
    last.op = "unregister" /\ last.name = name /\ last.ret = TRUE

-----------------------------------------------------------------------------
(* The claims *)

\* C1: register on a registered name keeps the record's createdAt and
\* replaces repo and path by the arguments; on a name that is not registered
\* createdAt is the time of the call.
C1_RegisterKeepsCreatedAt ==
    RegisterReturned =>
        LET new == Rec(file, last.name)
        IN  /\ Registered(file, last.name)
            /\ new.repo = last.arg[1]
            /\ new.path = last.arg[2]
            /\ Registered(prev, last.name)
                  => new.createdAt = Rec(prev, last.name).createdAt
            /\ ~Registered(prev, last.name) => new.createdAt = last.at[1]

\* a re-registration, later than the first one and with another repo and path
C1_Witness ==
    /\ last.op = "register"
    /\ Registered(prev, last.name)
    /\ Rec(prev, last.name).repo # Rec(file, last.name).repo
    /\ Rec(prev, last.name).path # Rec(file, last.name).path
    /\ Rec(file, last.name).createdAt = Rec(prev, last.name).createdAt
    /\ Rec(file, last.name).createdAt < last.at[1]

\* C2: after register the record has status needs-setup and no keys, whatever
\* the status and the keys of the record it replaced.
C2_RegisterResets ==
    RegisterReturned =>
        /\ Rec(file, last.name).status = "needs-setup"
        /\ Rec(file, last.name).keys = Some(<<>>)

\* a registration over a record that was ready or in error and had keys
C2_Witness ==
    /\ last.op = "register"
    /\ Registered(prev, last.name)
    /\ Rec(prev, last.name).status \in { "ready", "error" }
    /\ Kinds(prev, last.name) # {}
    /\ Rec(file, last.name).status = "needs-setup"
    /\ Kinds(file, last.name) = {}

\* C3: the isReady that get(name) returns is true exactly when the record has
\* at least one configured kind and its status is not error; neither an empty
\* missingKeys nor the status ready is needed.
C3_IsReadyIffKeyAndNotError ==
    (last.op = "get" /\ IsSome(last.ret)) =>
        Get1(last.ret).isReady =
            Some(/\ Kinds(file, last.name) # {}
                 /\ Rec(file, last.name).status # "error")

\* get returned isReady for a persona that still misses kinds and is not ready
C3_Witness ==
    /\ last.op = "get"
    /\ IsSome(last.ret)
    /\ Get1(last.ret).isReady = Some(TRUE)
    /\ Get1(last.ret).missingKeys # <<>>
    /\ Get1(last.ret).status = "needs-setup"

C5_AddKeyPromotes ==
    (last.op = "add-key" /\ last.ret = TRUE) =>
        /\ last.arg \in Kinds(file, last.name)
        /\ Rec(file, last.name).status =
              IF _getMissingKeys(KeysOrEmpty(Rec(file, last.name))) = <<>>
              THEN "ready"
              ELSE Rec(prev, last.name).status

\* the command added the last missing kind to a persona in error
C5_Witness ==
    /\ last.op = "add-key"
    /\ last.ret = TRUE
    /\ Rec(prev, last.name).status = "error"
    /\ Range(COMMON_KEYS) \ Kinds(prev, last.name) = { last.arg }
    /\ Range(COMMON_KEYS) \subseteq Kinds(file, last.name)
    /\ Rec(file, last.name).status = "ready"

\* removeKey(name, keyType) found the persona without that kind
RemovedNothing ==
    /\ last.op = "removeKey"
    /\ Registered(prev, last.name)
    /\ IsSome(Rec(prev, last.name).keys)
    /\ last.arg \notin Kinds(prev, last.name)

\* C6 as stated: removeKey of a kind that was never added to a registered
\* persona returns false and leaves the document unchanged.
C6_AsStated ==
    RemovedNothing =>
        /\ last.ret = FALSE
        /\ _readRegistry(file) = _readRegistry(prev)

\* C6: removeKey of a kind that is not configured on a registered persona
\* returns true and writes: the record keeps everything but its lastUpdated,
\* which is the time of the call, as is the document's after it.
C6_RemoveKeyAbsentKind ==
    RemovedNothing =>
        /\ last.ret = TRUE
        /\ Rec(file, last.name) =
              [Rec(prev, last.name) EXCEPT !.lastUpdated = last.at[1]]
        /\ _readRegistry(file).personas =
              ObjSet(_readRegistry(prev).personas, last.name, Rec(file, last.name))
        /\ _readRegistry(file).lastUpdated = Some(last.at[2])

\* a removeKey of an absent kind that moved the record's lastUpdated
C6_Witness ==
    /\ RemovedNothing
    /\ last.ret = TRUE
    /\ Kinds(prev, last.name) # {}
    /\ Kinds(file, last.name) = Kinds(prev, last.name)
    /\ Rec(prev, last.name).lastUpdated < Rec(file, last.name).lastUpdated

\* C7: updateStatus, addKey, removeKey and unregister on a name that is not
\* registered return false, leave the personas and the document's lastUpdated
\* as they were and create no record for the name.
C7_UnregisteredNameFails ==
    (/\ last.op \in { "updateStatus", "addKey", "removeKey", "unregister" }
     /\ ~Registered(prev, last.name)) =>
        /\ last.ret = FALSE
        /\ last.at = <<>>
        /\ file = _ensureRegistry(prev)
        /\ _readRegistry(file) = _readRegistry(prev)
        /\ ~Registered(file, last.name)

\* unregister failed on a name that is not registered while another name is
C7_Witness ==
    /\ last.op = "unregister"
    /\ ~Registered(prev, last.name)
    /\ _readRegistry(prev).personas # <<>>
    /\ IsSome(_readRegistry(prev).lastUpdated)
    /\ last.ret = FALSE
    /\ file = prev

\* C8 as stated: list() has one entry per registered persona, with the same
\* keysConfigured, missingKeys and isReady as get of that name.
C8_AsStated ==
    last.op = "list" =>
        /\ Len(last.ret) = Len(_readRegistry(file).personas)
        /\ \A i \in 1..Len(last.ret) :
              LET got == Get1(get(file, last.ret[i].name))
              IN  /\ last.ret[i].keysConfigured = got.keysConfigured
                  /\ last.ret[i].missingKeys = got.missingKeys
                  /\ last.ret[i].isReady = got.isReady

\* C8: list() has one entry per registered persona, with the same
\* keysConfigured and missingKeys as get of that name; the entries have no
\* isReady, which only get returns.
C8_ListMatchesGet ==
    last.op = "list" =>
        /\ Len(last.ret) = Len(_readRegistry(file).personas)
        /\ { last.ret[i].name : i \in 1..Len(last.ret) }
              = { name \in Names : Registered(file, name) }
        /\ \A i \in 1..Len(last.ret) :
              LET got == Get1(get(file, last.ret[i].name))
              IN  /\ last.ret[i].keysConfigured = got.keysConfigured
                  /\ last.ret[i].missingKeys = got.missingKeys
                  /\ last.ret[i].status = got.status
                  /\ last.ret[i].isReady = None
                  /\ IsSome(got.isReady)

\* list() returned two personas, one of them with a configured kind
C8_Witness ==
    /\ last.op = "list"
    /\ Len(last.ret) = 2
    /\ \E i \in 1..Len(last.ret) :
          /\ last.ret[i].keysConfigured # <<>>
          /\ Get1(get(file, last.ret[i].name)).isReady = Some(TRUE)

\* C9 as stated: a field the store does not know is still on the record, with
\* its value, after register, updateStatus, addKey and removeKey on that
\* persona or another, and after unregister of another persona.
C9_AsStated ==
    \A name \in Names :
        (/\ Registered(prev, name)
         /\ IsSome(Rec(prev, name).extra)
         /\ \/ last.op \in { "register", "updateStatus", "addKey", "removeKey" }
            \/ last.op = "unregister" /\ last.name # name) =>
            /\ Registered(file, name)
            /\ Rec(file, name).extra = Rec(prev, name).extra

\* C9: a field the store does not know is still on the record, with its
\* value, after updateStatus, addKey and removeKey on any persona and after
\* register, create-persona and unregister of another name; a registration of
\* the record's own name, by register or by create-persona, drops the field.
C9_ExtraFieldsKept ==
    \A name \in Names :
        (/\ Registered(prev, name)
         /\ IsSome(Rec(prev, name).extra)
         /\ last.op \in { "register", "updateStatus", "addKey", "removeKey",
                          "unregister", "create-persona" }) =>
            IF name \in RegisteredByLast
            THEN Registered(file, name) /\ Rec(file, name).extra = None
            ELSE IF UnregisteredByLast(name)
            THEN ~Registered(file, name)
            ELSE /\ Registered(file, name)
                 /\ Rec(file, name).extra = Rec(prev, name).extra

\* updateStatus changed the status of a record that carries an unknown field
C9_Witness ==
    /\ last.op = "updateStatus"
    /\ last.ret = TRUE
    /\ IsSome(Rec(prev, last.name).extra)
    /\ Rec(file, last.name).extra = Rec(prev, last.name).extra
    /\ Rec(file, last.name).status # Rec(prev, last.name).status

\* C10 as stated: a configured kind stays in the persona's keys until a
\* removeKey of that kind or an unregister of the persona; nothing else,
\* register of the same name and create-persona included, removes it.
C10_AsStated ==
    \A name \in Names : \A keyType \in KeyTypes :
        (/\ Registered(prev, name)
         /\ keyType \in Kinds(prev, name)
         /\ ~(last.op = "removeKey" /\ last.name = name /\ last.arg = keyType)
         /\ ~UnregisteredByLast(name)) =>
            /\ Registered(file, name)
            /\ keyType \in Kinds(file, name)

\* C10: a configured kind stays in the persona's keys until a removeKey of
\* that kind, an unregister of the persona or a registration of its name;
\* register of the same name empties the keys, also when create-persona does
\* it for its name and for the name without the prefix goc-persona-.
C10_KeysStayUntilRemoved ==
    \A name \in Names : \A keyType \in KeyTypes :
        (Registered(prev, name) /\ keyType \in Kinds(prev, name)) =>
            IF name \in RegisteredByLast
            THEN Registered(file, name) /\ Kinds(file, name) = {}
            ELSE IF UnregisteredByLast(name)
            THEN ~Registered(file, name)
            ELSE IF last.op = "removeKey" /\ last.name = name /\ last.arg = keyType
            THEN Kinds(file, name) = Kinds(prev, name) \ { keyType }
            ELSE Registered(file, name) /\ keyType \in Kinds(file, name)

\* create-persona of another name, without the bootstrap, kept a persona's kinds
C10_Witness ==
    /\ last.op = "create-persona"
    /\ last.ret = TRUE
    /\ last.arg = "bootstrap-fails"
    /\ \E name \in Names \ { last.name } :
          /\ Registered(prev, name)
          /\ Kinds(prev, name) = KeyTypes
          /\ Kinds(file, name) = KeyTypes

\* C11: a create-persona whose scaffold and config steps succeed leaves a
\* record for name with status needs-setup, no keys and the repo
\* greenclawdbot/goc-persona-<name>, whether the bootstrap succeeds or fails.
C11_CreateRegistersAnyway ==
    (/\ last.op = "create-persona"
     /\ last.arg \in { "bootstrap-fails", "bootstrap-ok" }) =>
        /\ last.ret = TRUE
        /\ Registered(file, last.name)
        /\ Rec(file, last.name).status = "needs-setup"
        /\ Rec(file, last.name).keys = Some(<<>>)
        /\ Rec(file, last.name).repo
              = << "greenclawdbot", "/", "goc-persona-" >> \o last.name

\* a create-persona whose bootstrap failed registered a name that was not
\* registered
C11_Witness ==
    /\ last.op = "create-persona"
    /\ last.arg = "bootstrap-fails"
    /\ ~Registered(prev, last.name)
    /\ Registered(file, last.name)
    /\ Rec(file, last.name).repo[3] = "goc-persona-"

\* C12: create-persona runs scaffold, config, bootstrap and register in this
\* order; when the scaffold or the config fails, no later step runs and the
\* registry document is as it was.
C12_CreateAbortsOnThrow ==
    last.op = "create-persona" =>
        /\ \E n \in 1..Len(CreateSteps) : last.ran = SubSeq(CreateSteps, 1, n)
        /\ last.arg = "scaffold-throws" =>
              /\ last.ran = << "createPersona" >>
              /\ file = prev
        /\ last.arg = "config-throws" =>
              /\ last.ran = << "createPersona", "createConfig" >>
              /\ file = prev
        /\ last.arg \in { "bootstrap-fails", "bootstrap-ok" } =>
              /\ last.ran = << "createPersona", "createConfig",
                               "initializeRepo", "register" >>
              /\ last.at # <<>>
              /\ Rec(file, last.name).lastUpdated = last.at[Len(last.at) - 1]

\* the config step failed for a name that is not registered, beside a
\* persona with keys
C12_Witness ==
    /\ last.op = "create-persona"
    /\ last.arg = "config-throws"
    /\ last.ran = << "createPersona", "createConfig" >>
    /\ file = prev
    /\ file.kind = "json"
    /\ _readRegistry(file).personas # <<>>

\* the place of the event of p in the order of reads and writes
Pos(p, what) == CHOOSE i \in 1..Len(events) : events[i] = <<p, what>>

\* q wrote between the read and the write of p
WroteBetween(q, p) ==
    /\ procs[p].pc = "done" /\ procs[p].wrote
    /\ procs[q].pc = "done" /\ procs[q].wrote
    /\ Pos(p, "read") < Pos(q, "write")
    /\ Pos(q, "write") < Pos(p, "write")

\* C13: of two invocations that run side by side, the one that writes last
\* writes its own copy: when q wrote between the read and the write of p, the
\* record is what p read with the change of p alone, and a kind that only q
\* added, or a status that only q set, is not in the document.
C13_LostUpdate ==
    \A p \in Procs : \A q \in Procs \ { p } :
        WroteBetween(q, p) =>
            LET read == Rec(JsonFile(procs[p].registry), procs[p].name)
                now  == Rec(file, procs[p].name)
            IN  /\ procs[p].op = "addKey" =>
                      /\ Kinds(file, procs[p].name)
                            = Range(ObjKeys(KeysOrEmpty(read))) \cup { procs[p].arg }
                      /\ now.status = read.status
                /\ procs[p].op = "updateStatus" =>
                      /\ now.keys = read.keys
                      /\ now.status = procs[p].arg

\* two addKey of different kinds, the second read before the first wrote:
\* only the kind of the last writer is configured
C13_Witness ==
    /\ events = << <<"A", "read">>, <<"B", "read">>, <<"B", "write">>, <<"A", "write">> >>
    /\ procs["A"].op = "addKey" /\ procs["B"].op = "addKey"
    /\ procs["A"].arg # procs["B"].arg
    /\ procs["A"].name = procs["B"].name
    /\ Kinds(prev, procs["B"].name) = { procs["B"].arg }
    /\ Kinds(file, procs["A"].name) = { procs["A"].arg }

\* C14 as stated: a mutating function that finds a document it cannot parse
\* leaves the file as it is.
C14_AsStated ==
    (/\ prev.kind = "corrupt"
     /\ last.op \in { "register", "updateStatus", "addKey", "removeKey",
                      "unregister" }) =>
        file = prev

\* list() of the file has no entry for name
NotListed(name) ==
    \A i \in 1..Len(list(file)) : list(file)[i].name # name

\* C15: once unregister(name) has returned true, get(name) is absent and
\* list() has no entry for name as long as no register of name follows; the
\* unregister leaves the records of the other personas as they were.
C15_UnregisterRemoves ==
    \A name \in Names :
        /\ UnregisteredByLast(name) =>
              /\ get(file, name) = None
              /\ NotListed(name)
              /\ _readRegistry(file).personas
                    = ObjDelete(_readRegistry(prev).personas, name)
              /\ \A other \in Names \ { name } :
                    Registered(prev, other) =>
                        /\ Registered(file, other)
                        /\ Rec(file, other) = Rec(prev, other)
        /\ (~Registered(prev, name) /\ name \notin RegisteredByLast) =>
              /\ get(file, name) = None
              /\ NotListed(name)

\* unregister removed a persona with keys and left the other persona
C15_Witness ==
    /\ last.op = "unregister"
    /\ last.ret = TRUE
    /\ Kinds(prev, last.name) # {}
    /\ get(file, last.name) = None
    /\ Len(list(file)) = 1
    /\ \E other \in Names \ { last.name } : Rec(file, other) = Rec(prev, other)

\* C16: after register(n, repo, path) on a registry without personas, list()
\* has exactly one entry: it is named n, has status needs-setup, no
\* configured kind and the whole common list as missingKeys.
C16_FirstRegisterListed ==
    (last.op = "register" /\ _readRegistry(prev).personas = <<>>) =>
        /\ Len(list(file)) = 1
        /\ list(file)[1].name = last.name
        /\ list(file)[1].status = "needs-setup"
        /\ list(file)[1].keysConfigured = <<>>
        /\ list(file)[1].missingKeys = COMMON_KEYS
        /\ Len(list(file)[1].missingKeys) = 9

\* the first register, with no registry file yet
C16_Witness ==
    /\ last.op = "register"
    /\ prev.kind = "absent"
    /\ Len(list(file)) = 1
    /\ list(file)[1].name = last.name

\* the persona name of the file f is as register leaves it
Fresh(f, name) ==
    /\ Registered(f, name)
    /\ Rec(f, name).keys = Some(<<>>)
    /\ Rec(f, name).status = "needs-setup"

\* what get(name) returns for the file f shows keyType as the only configured
\* kind, the other common kinds as missing, and the persona as ready
OnlyKey(f, name, keyType) ==
    /\ Get1(get(f, name)).keysConfigured = << keyType >>
    /\ Get1(get(f, name)).missingKeys
          = SelectSeq(COMMON_KEYS, LAMBDA key : key # keyType)
    /\ Len(Get1(get(f, name)).missingKeys) = Len(COMMON_KEYS) - 1
    /\ Get1(get(f, name)).isReady = Some(TRUE)

\* C17: after addKey(name, k) of a common kind k on a freshly registered
\* persona, get(name) has keysConfigured [k], missingKeys the common list
\* without k in its order, and isReady true although kinds are missing; this
\* for the addKey that was called and for each common kind that could be.
C17_FirstKeyMakesReady ==
    /\ (/\ last.op = "addKey"
        /\ Fresh(prev, last.name)
        /\ last.arg \in Range(COMMON_KEYS)) => OnlyKey(file, last.name, last.arg)
    /\ \A name \in Managed : \A keyType \in Range(COMMON_KEYS) :
          Fresh(file, name) =>
              OnlyKey(addKey(file, name, keyType, <<clock, clock, clock>>).file,
                      name, keyType)

\* addKey of openai on a freshly registered persona
C17_Witness ==
    /\ last.op = "addKey"
    /\ Fresh(prev, last.name)
    /\ last.arg = "openai"
    /\ Get1(get(file, last.name)).isReady = Some(TRUE)
    /\ Head(Get1(get(file, last.name)).missingKeys) = "anthropic"
    /\ Get1(get(file, last.name)).status = "needs-setup"

\* C18: get(name) changes neither a record nor the document's lastUpdated,
\* and a second get(name) right after it returns what the first returned.
C18_GetIsPure ==
    last.op = "get" =>
        /\ file = _ensureRegistry(prev)
        /\ _readRegistry(file) = _readRegistry(prev)
        /\ get(file, last.name) = last.ret
        /\ get(prev, last.name) = last.ret

\* get returned a persona with keys and left the document as it was
C18_Witness ==
    /\ last.op = "get"
    /\ IsSome(last.ret)
    /\ Get1(last.ret).keysConfigured # <<>>
    /\ Get1(last.ret).missingKeys # <<>>
    /\ file = prev
    /\ IsSome(_readRegistry(file).lastUpdated)

\* strings that are none of the statuses the commands name
OtherStatuses == { "", "Ready", "paused", "archived" }

\* C19: updateStatus(name, s) on a registered persona returns true for any
\* string s and sets the status to s; of the document it changes this
\* record's status and lastUpdated and the document's lastUpdated, nothing
\* else.
C19_UpdateStatusFrame ==
    /\ (last.op = "updateStatus" /\ Registered(prev, last.name)) =>
          /\ last.ret = TRUE
          /\ Rec(file, last.name)
                = [Rec(prev, last.name) EXCEPT !.status = last.arg,
                                               !.lastUpdated = last.at[1]]
          /\ _readRegistry(file).personas
                = ObjSet(_readRegistry(prev).personas, last.name,
                         Rec(file, last.name))
          /\ _readRegistry(file).lastUpdated = Some(last.at[2])
    /\ \A name \in Managed : \A status \in OtherStatuses \cup Statuses :
          Registered(file, name) =>
              /\ updateStatus(file, name, status, <<clock, clock>>).ret = TRUE
              /\ Rec(updateStatus(file, name, status, <<clock, clock>>).file,
                     name).status = status

\* updateStatus set a status that is none of the three, on a persona with keys
C19_Witness ==
    /\ last.op = "updateStatus"
    /\ last.arg = "paused"
    /\ last.ret = TRUE
    /\ Kinds(prev, last.name) # {}
    /\ Rec(prev, last.name).status # "paused"
    /\ Rec(file, last.name).status = "paused"
    /\ Rec(file, last.name).keys = Rec(prev, last.name).keys

\* C20: addKey(name, kind) on a registered persona returns true and makes
\* kind configured; the other markers and the record's status, repo, path
\* and createdAt stay, and when kind was configured already keysConfigured
\* and missingKeys are what they were.
C20_AddKeyFrame ==
    (last.op = "addKey" /\ Registered(prev, last.name)) =>
        LET old == Rec(prev, last.name)
            new == Rec(file, last.name)
        IN  /\ last.ret = TRUE
            /\ ObjGet(KeysOrEmpty(new), last.arg)
                  = Some([configured |-> TRUE, configuredAt |-> last.at[1]])
            /\ Kinds(file, last.name) = Kinds(prev, last.name) \cup { last.arg }
            /\ \A keyType \in Kinds(prev, last.name) \ { last.arg } :
                  ObjGet(KeysOrEmpty(new), keyType) = ObjGet(KeysOrEmpty(old), keyType)
            /\ new.status = old.status
            /\ new.repo = old.repo
            /\ new.path = old.path
            /\ new.createdAt = old.createdAt
            /\ last.arg \in Kinds(prev, last.name) =>
                  /\ Get1(get(file, last.name)).keysConfigured
                        = Get1(get(prev, last.name)).keysConfigured
                  /\ Get1(get(file, last.name)).missingKeys
                        = Get1(get(prev, last.name)).missingKeys

\* addKey of the kind that was configured first, later than the first time
C20_Witness ==
    /\ last.op = "addKey"
    /\ last.ret = TRUE
    /\ Kinds(prev, last.name) = KeyTypes
    /\ Head(Get1(get(prev, last.name)).keysConfigured) = last.arg
    /\ Head(Get1(get(file, last.name)).keysConfigured) = last.arg
    /\ ObjGet(KeysOrEmpty(Rec(prev, last.name)), last.arg)
          # ObjGet(KeysOrEmpty(Rec(file, last.name)), last.arg)

\* C21: removeKey(name, kind) returns false and writes nothing exactly when
\* the persona is not registered or its record has no keys mapping; else it
\* returns true, kind is not configured afterwards and the other markers of
\* the persona are as they were.
C21_RemoveKeyContract ==
    last.op = "removeKey" =>
        IF ~Registered(prev, last.name) \/ ~IsSome(Rec(prev, last.name).keys)
        THEN /\ last.ret = FALSE
             /\ last.at = <<>>
             /\ file = _ensureRegistry(prev)
        ELSE /\ last.ret = TRUE
             /\ last.at # <<>>
             /\ IsSome(Rec(file, last.name).keys)
             /\ Kinds(file, last.name) = Kinds(prev, last.name) \ { last.arg }
             /\ \A keyType \in Kinds(file, last.name) :
                   ObjGet(KeysOrEmpty(Rec(file, last.name)), keyType)
                      = ObjGet(KeysOrEmpty(Rec(prev, last.name)), keyType)

\* removeKey refused a registered persona whose record has no keys mapping
C21_Witness ==
    /\ last.op = "removeKey"
    /\ Registered(prev, last.name)
    /\ ~IsSome(Rec(prev, last.name).keys)
    /\ last.ret = FALSE
    /\ file = prev

\* the last call was a manual registration that found no such path
PathMissing ==
    /\ last.op \in { "register-command", "registerExistingRepo" }
    /\ ~last.arg[3]

\* C22: a manual registration, by the register command or by
\* registerExistingRepo, of a path that does not exist fails and leaves the
\* registry as it was: nothing is registered.
C22_PathMissingRegistersNothing ==
    PathMissing =>
        /\ last.ret = FALSE
        /\ last.at = <<>>
        /\ file = prev

\* the register command refused a missing path for a persona that has keys
C22_Witness ==
    /\ last.op = "register-command"
    /\ ~last.arg[3]
    /\ last.ret = FALSE
    /\ Registered(file, last.name)
    /\ Kinds(file, last.name) # {}
    /\ Rec(file, last.name).path # last.arg[2]

\* C23 as stated: for a persona whose configured kinds are exactly openai,
\* anthropic, elevenlabs and discord the status command reports no missing
\* key, with the status needs-setup.
C23_AsStated ==
    (/\ last.op = "status"
     /\ IsSome(last.ret)
     /\ Range(Get1(last.ret).keys) = { "openai", "anthropic", "elevenlabs", "discord" }) =>
        /\ Get1(last.ret).missing = <<>>
        /\ Get1(last.ret).status = "needs-setup"

\* C24: on a file that cannot be parsed get returns absent and list returns
\* no entry, as on an empty registry, and leave the file; a register(n) on it
\* writes a document whose personas mapping holds n and nothing else.
C24_CorruptReadsAsEmpty ==
    prev.kind = "corrupt" =>
        /\ last.op = "get" => last.ret = None /\ file = prev
        /\ last.op = "list" => last.ret = <<>> /\ file = prev
        /\ last.op = "getKeys" => last.ret = <<>> /\ file = prev
        /\ last.op = "register" =>
              /\ file.kind = "json"
              /\ ObjKeys(file.data.personas) = << last.name >>
              /\ Fresh(file, last.name)
              /\ file.data.lastUpdated = Some(last.at[3])

\* register on a file that cannot be parsed left a document with one record
C24_Witness ==
    /\ prev.kind = "corrupt"
    /\ last.op = "register"
    /\ file.kind = "json"
    /\ Len(file.data.personas) = 1
    /\ file.data.personas[1].k = last.name

\* C30 as stated: whatever the file holds, each registry function returns
\* and does not end in an error that nothing catches.
C30_AsStated ==
    last.op \in { "get", "list", "getKeys", "register", "updateStatus", "addKey",
                  "removeKey", "unregister" } =>
        last.ran # << "TypeError" >>

\* C25 as stated: create-persona of a name leaves every other name as it
\* was, registered with the same record or not registered.
C25_AsStated ==
    last.op = "create-persona" =>
        \A name \in Names \ { last.name } :
            /\ Registered(file, name) = Registered(prev, name)
            /\ Registered(prev, name) => Rec(file, name) = Rec(prev, name)

\* the place where p ended, by its write or by its return of false
EndPos(p) ==
    CHOOSE i \in 1..Len(events) :
        events[i][1] = p /\ events[i][2] \in { "write", "return" }

\* the unregister of q has written
Unregistered(q) ==
    procs[q].pc = "done" /\ procs[q].op = "unregister" /\ procs[q].wrote

\* p read the record of the name before the unregister of q wrote, and ended
\* its updateStatus, addKey or removeKey after it
Overtaken(q, p) ==
    /\ procs[p].pc = "done"
    /\ procs[p].op \in { "updateStatus", "addKey", "removeKey" }
    /\ procs[p].name = procs[q].name
    /\ ObjHas(procs[p].registry.personas, procs[p].name)
    /\ Pos(p, "read") < Pos(q, "write")
    /\ Pos(q, "write") < EndPos(p)

\* C26 as stated: once unregister(name) has returned true the name is not in
\* the document, whatever another invocation that read before writes after.
C26_AsStated ==
    \A q \in Procs : Unregistered(q) => ~Registered(file, procs[q].name)

\* C26: once unregister(name) has returned true, and with no register of
\* name, the name is in the document exactly when an updateStatus, addKey or
\* removeKey of another invocation that read the record before the
\* unregister wrote has ended after it: it writes its copy, record included.
C26_UnregisterOvertaken ==
    \A q \in Procs :
        Unregistered(q) =>
            /\ Registered(file, procs[q].name)
                  = (\E p \in Procs \ { q } : Overtaken(q, p))
            /\ \A p \in Procs \ { q } :
                  Overtaken(q, p) =>
                      /\ procs[p].wrote
                      /\ Rec(file, procs[q].name).createdAt
                            = Rec(JsonFile(procs[p].registry), procs[p].name).createdAt

\* B unregistered between the read and the write of an addKey of A: the
\* record is back
C26_Witness ==
    /\ events = << <<"A", "read">>, <<"B", "read">>, <<"B", "write">>, <<"A", "write">> >>
    /\ procs["B"].op = "unregister"
    /\ procs["A"].op = "addKey"
    /\ ~Registered(prev, procs["B"].name)
    /\ Registered(file, procs["B"].name)
    /\ procs["A"].arg \in Kinds(file, procs["A"].name)

\* the lastUpdated of the document in the file f
DocStamp(f) == _readRegistry(f).lastUpdated

\* the last call wrote the document
LastWrote == last.at # <<>>

\* C27: in every state each record has createdAt <= lastUpdated <= the
\* lastUpdated of the document, and the lastUpdated of the document is null
\* exactly when no mutating operation has succeeded and written: it is set
\* when the document found had it set or the last call wrote, and a registry
\* function wrote exactly when it is register or it returned true.
C27_TimestampOrder ==
    /\ \A name \in Names :
          Registered(file, name) =>
              /\ Rec(file, name).createdAt <= Rec(file, name).lastUpdated
              /\ IsSome(DocStamp(file))
              /\ Rec(file, name).lastUpdated <= Get1(DocStamp(file))
    /\ IsSome(DocStamp(file)) = (IsSome(DocStamp(prev)) \/ LastWrote)
    /\ last.op \in { "init", "get", "list", "getKeys" } => ~LastWrote
    /\ last.op = "register" => LastWrote
    /\ last.op \in { "updateStatus", "addKey", "removeKey", "unregister" } =>
          LastWrote = (last.ret = TRUE)

\* a record created before its last change, in a document stamped after an
\* unregister that found nothing had left it unstamped
C27_Witness ==
    /\ last.op = "updateStatus"
    /\ last.ret = TRUE
    /\ Registered(file, <<"demo">>)
    /\ Rec(file, <<"demo">>).createdAt < Rec(file, <<"demo">>).lastUpdated
    /\ Rec(file, <<"demo">>).lastUpdated <= Get1(DocStamp(file))

\* the functions of the registry that take the name of a persona
NamedFunctions ==
    { "get", "getKeys", "register", "updateStatus", "addKey", "removeKey",
      "unregister" }

\* C28: a function of the registry called on a name leaves the record of
\* every other registered name as it was, lastUpdated included: of the
\* other names only the stamp of the document changes.
C28_OthersUntouched ==
    last.op \in NamedFunctions =>
        \A name \in Names \ { last.name } :
            Registered(prev, name) =>
                /\ Registered(file, name)
                /\ Rec(file, name) = Rec(prev, name)

\* the status of demo was set after goc-persona-demo was last written: the
\* document is stamped anew and the record of goc-persona-demo is not
C28_Witness ==
    /\ last.op = "updateStatus"
    /\ last.name = <<"demo">>
    /\ last.ret = TRUE
    /\ Registered(prev, <<"goc-persona-", "demo">>)
    /\ Rec(file, <<"goc-persona-", "demo">>) = Rec(prev, <<"goc-persona-", "demo">>)
    /\ Rec(file, <<"goc-persona-", "demo">>).lastUpdated < Get1(DocStamp(file))
    /\ DocStamp(file) # DocStamp(prev)

\* the functions of the registry that only read
Reads == { "get", "list", "getKeys" }

\* C29: get, list and getKeys leave a file that exists as it is, whatever is
\* in it, and where there is none they leave the empty document, with no
\* personas and lastUpdated null.
C29_ReadsDoNotWrite ==
    last.op \in Reads =>
        /\ prev.kind # "absent" => file = prev
        /\ prev.kind = "absent" => file = JsonFile(EmptyRegistry)
        /\ ~LastWrote

\* getKeys of a registered persona with a key left the document as it was
C29_Witness ==
    /\ last.op = "getKeys"
    /\ ~ThrowsTypeError(prev)
    /\ Registered(prev, last.name)
    /\ Kinds(prev, last.name) # {}
    /\ IsSome(DocStamp(prev))
    /\ file = prev

====
